---- MODULE Spec2Model ----
(***************************************************************************)
(* Model of server.py: the WSGI application ReviewAnalyzerServer and the   *)
(* helper filter_by_date_range.                                            *)
(*                                                                         *)
(* The module-level list `reviews` is a Python list of references to       *)
(* dict objects.  It is modelled as `reviews`, a sequence of object ids,   *)
(* and `heap`, which maps each object id to the dict it denotes (a         *)
(* function from key strings to values).  A list copy or a list            *)
(* comprehension yields a new sequence of the same object ids.             *)
(***************************************************************************)
EXTENDS Integers, Sequences, FiniteSets, TLC

\* ---------------------------------------------------------------- bounds
MaxSeeds == 1        \* rows of data/reviews.csv
MaxStore == 2        \* length of `reviews` beyond which POSTs are not issued
MaxThreads == 2      \* handler threads of the threaded deployment

\* ------------------------------------------------------- strings and time
\* "%Y-%m-%d" strings, by day number.
DateStr ==
  << "2021-01-01", "2021-01-02", "2021-01-03", "2021-01-04" >>

\* "%H:%M:%S" strings, by slot, and the hour each denotes.
TimeStr == << "00:00:00", "12:00:00", "18:00:00", "23:59:59" >>

SlotHour == << 0, 12, 18, 23 >>

\* "%Y-%m-%d %H:%M:%S" strings, by day and slot.
TimestampStr ==
  << << "2021-01-01 00:00:00", "2021-01-01 12:00:00",
        "2021-01-01 18:00:00", "2021-01-01 23:59:59" >>,
     << "2021-01-02 00:00:00", "2021-01-02 12:00:00",
        "2021-01-02 18:00:00", "2021-01-02 23:59:59" >>,
     << "2021-01-03 00:00:00", "2021-01-03 12:00:00",
        "2021-01-03 18:00:00", "2021-01-03 23:59:59" >>,
     << "2021-01-04 00:00:00", "2021-01-04 12:00:00",
        "2021-01-04 18:00:00", "2021-01-04 23:59:59" >> >>

\* The calendar days in use: 2021-01-01 and 2021-01-02.
Days == { 1, 2 }

\* The times of day in use: 00:00:00 and 12:00:00.
Slots == { 1, 2 }

Timestamps == { TimestampStr[d][s] : d \in Days, s \in Slots }

\* The value strptime raises instead of returning.
ValueError == -1

\* A datetime value, in hours since 2021-01-01 00:00:00.
DateTime(d, s) == (d - 1) * 24 + SlotHour[s]

\* The datetime each well-formed "%Y-%m-%d" string denotes (midnight).
DateValue ==
  [ s \in { DateStr[d] : d \in 1 .. Len(DateStr) } |->
      LET d == CHOOSE d \in 1 .. Len(DateStr) : DateStr[d] = s
      IN  DateTime(d, 1) ]

\* The datetime each well-formed "%Y-%m-%d %H:%M:%S" string denotes.
TimestampValue ==
  [ s \in { TimestampStr[d][t] : d \in 1 .. Len(DateStr), t \in 1 .. Len(TimeStr) } |->
      LET dt == CHOOSE dt \in (1 .. Len(DateStr)) \X (1 .. Len(TimeStr)) :
                  TimestampStr[dt[1]][dt[2]] = s
      IN  DateTime(dt[1], dt[2]) ]

\* datetime.datetime.strptime(s, "%Y-%m-%d")
StrptimeDate(s) == IF s \in DOMAIN DateValue THEN DateValue[s] ELSE ValueError

\* datetime.datetime.strptime(s, "%Y-%m-%d %H:%M:%S")
StrptimeTimestamp(s) ==
  IF s \in DOMAIN TimestampValue THEN TimestampValue[s] ELSE ValueError

\* ------------------------------------------------------------ input sets
Bodies == { "Great stay", "Awful room" }

\* sia.polarity_scores(body)["compound"], scaled by 10: a fixed function of
\* the text.
Compound(body) ==
  CASE body = "Great stay" -> 6
    [] body = "Awful room" -> -5
    [] OTHER -> 0

\* The entries of the allow-list the requests of the model use.
allowed_locations == { "Denver, Colorado", "San Diego, California" }

SeedLocations == { "Denver, Colorado", "Nowhere" }

QueryLocations == { "Denver, Colorado", "Nowhere", "" }

FormLocations == { "Denver, Colorado", "denver, colorado", "Nowhere", "" }

FormBodies == Bodies \cup { "" }

QueryDates == { DateStr[d] : d \in Days } \cup { "01/02/2021" }

\* A raw value list: <<>> when the key does not occur in the string.
Opt(S) == { <<>> } \cup { << v >> : v \in S }

\* ----------------------------------------------------------- dict helpers
\* d[k] = v on a dict
SetItem(d, k, v) ==
  [ x \in (DOMAIN d) \cup { k } |-> IF x = k THEN v ELSE d[x] ]

\* parse_qs called with keep_blank_values=True: blank values stay.
parse_qs_KeepBlank(raw) ==
  [ k \in { k \in DOMAIN raw : raw[k] # <<>> } |-> raw[k] ]

\* urllib.parse.parse_qs with its default keep_blank_values=False: a key
\* whose value is blank is left out; each remaining key maps to its list.
parse_qs(raw) ==
  [ k \in { k \in DOMAIN raw : raw[k] # <<>> /\ raw[k][1] # "" } |-> raw[k] ]

analyze_sentiment(review_body) == [ compound |-> Compound(review_body) ]

\* ----------------------------------------------------------------- state
VARIABLES
  heap,      \* object id -> dict
  reviews,   \* the module-level list: a sequence of object ids
  seeded,    \* number of records loaded from the seed file
  request,   \* the request being answered (sequential server)
  response,  \* the response to it
  created,   \* object ids of the reviews that 201 responses reported
  pc,        \* per thread: position in __call__ (threaded deployment)
  local      \* per thread: local variables of __call__

vars == << heap, reviews, seeded, request, response, created, pc, local >>

Threads == 1 .. MaxThreads

\* A row of the seed file: no ReviewId, no sentiment.
SeedRecords ==
  [ ReviewBody : Bodies, Location : SeedLocations, Timestamp : Timestamps ]

SeedFiles ==
  UNION { [ 1 .. n -> SeedRecords ] : n \in 0 .. MaxSeeds }

NoRequest == [ method |-> "NONE" ]

NoResponse == [ status |-> "NONE" ]

Idle == [ method |-> "NONE" ]

Init ==
  /\ \E f \in SeedFiles :
       /\ heap = f
       /\ reviews = [ i \in 1 .. Len(f) |-> i ]
       /\ seeded = Len(f)
  /\ request = NoRequest
  /\ response = NoResponse
  /\ created = { }
  /\ pc = [ t \in Threads |-> "idle" ]
  /\ local = [ t \in Threads |-> Idle ]

\* ------------------------------------------------------ filter_by_date_range
TimestampOf(h, o) == StrptimeTimestamp(h[o].Timestamp)

\* filter_by_date_range with the end bound taken as the end of that day.
filter_by_date_range_EndOfDay(filtered_reviews, query_params, h) ==
  LET hasStart == "start_date" \in DOMAIN query_params
      hasEnd == "end_date" \in DOMAIN query_params
      start_date == IF hasStart THEN StrptimeDate(query_params["start_date"][1])
                    ELSE ValueError
      end_date == IF hasEnd THEN StrptimeDate(query_params["end_date"][1])
                  ELSE ValueError
  IN  IF hasStart /\ start_date = ValueError THEN filtered_reviews
      ELSE IF hasEnd /\ end_date = ValueError THEN filtered_reviews
      ELSE IF hasStart /\ hasEnd THEN
        SelectSeq(filtered_reviews,
                  LAMBDA o : start_date <= TimestampOf(h, o)
                             /\ TimestampOf(h, o) < end_date + 24)
      ELSE IF hasStart THEN
        SelectSeq(filtered_reviews, LAMBDA o : start_date <= TimestampOf(h, o))
      ELSE IF hasEnd THEN
        SelectSeq(filtered_reviews, LAMBDA o : TimestampOf(h, o) < end_date + 24)
      ELSE filtered_reviews

filter_by_date_range(filtered_reviews, query_params, h) ==
  LET hasStart == "start_date" \in DOMAIN query_params
      hasEnd == "end_date" \in DOMAIN query_params
      start_date == IF hasStart THEN StrptimeDate(query_params["start_date"][1])
                    ELSE ValueError
      end_date == IF hasEnd THEN StrptimeDate(query_params["end_date"][1])
                  ELSE ValueError
  IN  IF hasStart /\ start_date = ValueError THEN filtered_reviews
      ELSE IF hasEnd /\ end_date = ValueError THEN filtered_reviews
      ELSE IF hasStart /\ hasEnd THEN
        SelectSeq(filtered_reviews,
                  LAMBDA o : start_date <= TimestampOf(h, o)
                             /\ TimestampOf(h, o) <= end_date)
      ELSE IF hasStart THEN
        SelectSeq(filtered_reviews, LAMBDA o : start_date <= TimestampOf(h, o))
      ELSE IF hasEnd THEN
        SelectSeq(filtered_reviews, LAMBDA o : TimestampOf(h, o) <= end_date)
      ELSE filtered_reviews

\* ------------------------------------------------------------- GET helpers
\* The location list comprehension.
FilterByLocation(lst, query_params, h) ==
  IF "location" \in DOMAIN query_params
    THEN SelectSeq(lst, LAMBDA o : h[o].Location = query_params["location"][1])
    ELSE lst

\* The allow-list check left out.
FilterAllowed_Skipped(lst, query_params) == lst

\* The allow-list check that follows the date filter.
FilterAllowed(lst, query_params) ==
  IF "location" \in DOMAIN query_params
     /\ query_params["location"][1] \notin allowed_locations
    THEN << >>
    ELSE lst

Range(s) == { s[i] : i \in DOMAIN s }

\* for review in filtered_reviews: review["sentiment"] = ...
AttachSentiment(h, lst) ==
  [ o \in DOMAIN h |->
      IF o \in Range(lst)
        THEN SetItem(h[o], "sentiment", analyze_sentiment(h[o].ReviewBody))
        ELSE h[o] ]

\* A descending sort that puts a review before the reviews of equal score.
RECURSIVE InsertDesc_Unstable(_, _, _)
InsertDesc_Unstable(s, x, h) ==
  IF s = << >> THEN << x >>
  ELSE IF h[Head(s)].sentiment.compound > h[x].sentiment.compound
    THEN << Head(s) >> \o InsertDesc_Unstable(Tail(s), x, h)
    ELSE << x >> \o s

\* list.sort(key=..., reverse=True): stable, descending by key.
RECURSIVE InsertDesc(_, _, _)
InsertDesc(s, x, h) ==
  IF s = << >> THEN << x >>
  ELSE IF h[Head(s)].sentiment.compound >= h[x].sentiment.compound
    THEN << Head(s) >> \o InsertDesc(Tail(s), x, h)
    ELSE << x >> \o s

RECURSIVE SortDesc(_, _)
SortDesc(s, h) ==
  IF s = << >> THEN << >>
  ELSE InsertDesc(SortDesc(SubSeq(s, 1, Len(s) - 1), h), s[Len(s)], h)

\* The list GET filters down to, before sentiment and sort.
Filtered(lst, query_params, h) ==
  FilterAllowed(
    filter_by_date_range(FilterByLocation(lst, query_params, h), query_params, h),
    query_params)

\* json.dumps of a list of dicts: the dicts' contents at that moment.
Dumps(lst, h) == [ i \in 1 .. Len(lst) |-> h[lst[i]] ]

\* ------------------------------------------------------------ POST helpers
MissingFieldError == [ error |-> "ReviewBody and Location are required" ]

InvalidLocationError == [ error |-> "Invalid location provided" ]

\* The try block: both keys must be in the parsed form.
HasRequired(parsed_body) ==
  "ReviewBody" \in DOMAIN parsed_body /\ "Location" \in DOMAIN parsed_body

\* new_review with the two submitted values under each other's key.
new_review_Swapped(id, review_body, location, now) ==
  [ ReviewId |-> id,
    ReviewBody |-> location,
    Location |-> review_body,
    Timestamp |-> now,
    sentiment |-> analyze_sentiment(review_body) ]

new_review(id, review_body, location, now) ==
  [ ReviewId |-> id,
    ReviewBody |-> review_body,
    Location |-> location,
    Timestamp |-> now,
    sentiment |-> analyze_sentiment(review_body) ]

CaseFold(str) ==
  CASE str = "Denver, Colorado" -> "denver, colorado"
    [] str = "San Diego, California" -> "san diego, california"
    [] OTHER -> str

\* The allow-list test made without regard to case.
InAllowList_IgnoreCase(location) ==
  \E a \in allowed_locations : CaseFold(a) = CaseFold(location)

\* location in allowed_locations, as the POST path tests it
InAllowList(location) == location \in allowed_locations

\* insert(0, o) in place of append.
ListAppend_Front(lst, o) == << o >> \o lst

\* An append that skips a review equal in body, location and timestamp to
\* one already in the list.
ListAppend_SkipDuplicate(lst, o) ==
  IF \E q \in Range(lst) :
       /\ heap[q].ReviewBody = heap[o].ReviewBody
       /\ heap[q].Location = heap[o].Location
       /\ heap[q].Timestamp = heap[o].Timestamp
    THEN lst
    ELSE Append(lst, o)

\* list.append
ListAppend(lst, o) == Append(lst, o)

\* ------------------------------------------------- the sequential server
RawQueries ==
  [ location : Opt(QueryLocations),
    start_date : Opt(QueryDates),
    end_date : Opt(QueryDates) ]

RawForms == [ ReviewBody : Opt(FormBodies), Location : Opt(FormLocations) ]

\* The server takes the next request once the last response has been sent.
Waiting == request = NoRequest

\* The times the clock can show: datetime.now() does not run backwards, so
\* no earlier than the stamp of any review created so far.
Now(h) ==
  { ts \in Timestamps :
      \A o \in DOMAIN h :
        "ReviewId" \in DOMAIN h[o]
        => StrptimeTimestamp(h[o].Timestamp) <= StrptimeTimestamp(ts) }

Get(raw) ==
  LET query_params == parse_qs(raw)
      filtered_reviews == Filtered(reviews, query_params, heap)
      h2 == AttachSentiment(heap, filtered_reviews)
      sorted == SortDesc(filtered_reviews, h2)
  IN  /\ Waiting
      /\ heap' = h2
      /\ request' = [ method |-> "GET", query |-> raw ]
      /\ response' = [ status |-> "200 OK", body |-> Dumps(sorted, h2) ]
      /\ UNCHANGED << reviews, seeded, created, pc, local >>

PostMissing(raw) ==
  /\ Waiting
  /\ ~ HasRequired(parse_qs(raw))
  /\ request' = [ method |-> "POST", form |-> raw ]
  /\ response' = [ status |-> "400 Bad Request", body |-> MissingFieldError ]
  /\ UNCHANGED << heap, reviews, seeded, created, pc, local >>

PostInvalid(raw) ==
  /\ Waiting
  /\ HasRequired(parse_qs(raw))
  /\ ~ InAllowList(parse_qs(raw)["Location"][1])
  /\ request' = [ method |-> "POST", form |-> raw ]
  /\ response' = [ status |-> "400 Bad Request", body |-> InvalidLocationError ]
  /\ UNCHANGED << heap, reviews, seeded, created, pc, local >>

PostCreated(raw, now) ==
  /\ Waiting
  /\ Len(reviews) < MaxStore
  /\ HasRequired(parse_qs(raw))
  /\ InAllowList(parse_qs(raw)["Location"][1])
  /\ LET parsed_body == parse_qs(raw)
         o == Len(heap) + 1
         rec == new_review(o, parsed_body["ReviewBody"][1],
                           parsed_body["Location"][1], now)
     IN  /\ heap' = Append(heap, rec)
         /\ reviews' = ListAppend(reviews, o)
         /\ request' = [ method |-> "POST", form |-> raw ]
         /\ response' = [ status |-> "201 Created", body |-> rec ]
         /\ created' = created \cup { o }
  /\ UNCHANGED << seeded, pc, local >>

\* Neither branch of __call__ is taken: the method returns None.
Other ==
  /\ Waiting
  /\ request' = [ method |-> "PUT" ]
  /\ response' = NoResponse
  /\ UNCHANGED << heap, reviews, seeded, created, pc, local >>

\* The response has been sent; serve_forever waits for the next request.
Sent ==
  /\ ~ Waiting
  /\ request' = NoRequest
  /\ response' = NoResponse
  /\ UNCHANGED << heap, reviews, seeded, created, pc, local >>

Next ==
  \/ \E raw \in RawQueries : Get(raw)
  \/ \E raw \in RawForms : PostMissing(raw)
  \/ \E raw \in RawForms : PostInvalid(raw)
  \/ \E raw \in RawForms, now \in Now(heap) : PostCreated(raw, now)
  \/ Other
  \/ Sent

Spec == Init /\ [][Next]_vars

\* ------------------------------------------------ the threaded deployment
\* __call__ run by several threads of one process.  Each step is one
\* statement (or run of statements) that touches the shared list or the
\* shared dicts; list.copy, list.append and a dict store are each atomic.
ConcQueries ==
  { [ location |-> << "Denver, Colorado" >>, start_date |-> << >>,
      end_date |-> << >> ] }

ConcForms ==
  { [ ReviewBody |-> << "Great stay" >>, Location |-> << "Denver, Colorado" >> ],
    [ ReviewBody |-> << >>, Location |-> << "Denver, Colorado" >> ],
    [ ReviewBody |-> << "Great stay" >>, Location |-> << "Nowhere" >> ] }

ConcTimestamps == { TimestampStr[1][1] }

\* The seed files of the threaded runs: rows of one content.
ConcSeedFiles ==
  { [ i \in 1 .. n |->
        [ ReviewBody |-> "Awful room", Location |-> "Denver, Colorado",
          Timestamp |-> TimestampStr[1][1] ] ] : n \in 0 .. MaxSeeds }

InitConc ==
  /\ \E f \in ConcSeedFiles :
       /\ heap = f
       /\ reviews = [ i \in 1 .. Len(f) |-> i ]
       /\ seeded = Len(f)
  /\ request = NoRequest
  /\ response = NoResponse
  /\ created = { }
  /\ pc = [ t \in Threads |-> "idle" ]
  /\ local = [ t \in Threads |-> Idle ]

Goto(t, label) == pc' = [ pc EXCEPT ![t] = label ]

\* REQUEST_METHOD == "GET"; filtered_reviews = reviews.copy()
ConcGetCopy(t, raw) ==
  /\ pc[t] = "idle"
  /\ Goto(t, "get_filter")
  /\ local' = [ local EXCEPT ![t] =
                  [ method |-> "GET", raw |-> raw, lst |-> reviews ] ]
  /\ UNCHANGED << heap, reviews, seeded, request, response, created >>

\* the location filter, filter_by_date_range and the allow-list check
ConcGetFilter(t) ==
  /\ pc[t] = "get_filter"
  /\ Goto(t, "get_attach")
  /\ local' = [ local EXCEPT ![t] =
                  [ method |-> "GET", raw |-> local[t].raw,
                    lst |-> Filtered(local[t].lst, parse_qs(local[t].raw), heap),
                    i |-> 1 ] ]
  /\ UNCHANGED << heap, reviews, seeded, request, response, created >>

\* one turn of: for review in filtered_reviews: review["sentiment"] = ...
ConcGetAttach(t) ==
  /\ pc[t] = "get_attach"
  /\ local[t].i <= Len(local[t].lst)
  /\ heap' = AttachSentiment(heap, << local[t].lst[local[t].i] >>)
  /\ local' = [ local EXCEPT ![t].i = @ + 1 ]
  /\ UNCHANGED << reviews, seeded, request, response, created, pc >>

\* filtered_reviews.sort(...), once the loop is over
ConcGetSort(t) ==
  /\ pc[t] = "get_attach"
  /\ local[t].i > Len(local[t].lst)
  /\ Goto(t, "get_respond")
  /\ local' = [ local EXCEPT ![t].lst = SortDesc(@, heap) ]
  /\ UNCHANGED << heap, reviews, seeded, request, response, created >>

\* json.dumps(filtered_reviews) and the 200 response
ConcGetRespond(t) ==
  /\ pc[t] = "get_respond"
  /\ Goto(t, "idle")
  /\ request' = [ method |-> "GET", query |-> local[t].raw ]
  /\ response' = [ status |-> "200 OK", body |-> Dumps(local[t].lst, heap) ]
  /\ local' = [ local EXCEPT ![t] = Idle ]
  /\ UNCHANGED << heap, reviews, seeded, created >>

\* REQUEST_METHOD == "POST", a required field missing
ConcPostMissing(t, raw) ==
  /\ pc[t] = "idle"
  /\ ~ HasRequired(parse_qs(raw))
  /\ request' = [ method |-> "POST", form |-> raw ]
  /\ response' = [ status |-> "400 Bad Request", body |-> MissingFieldError ]
  /\ UNCHANGED << heap, reviews, seeded, created, pc, local >>

\* REQUEST_METHOD == "POST", Location outside the allow-list
ConcPostInvalid(t, raw) ==
  /\ pc[t] = "idle"
  /\ HasRequired(parse_qs(raw))
  /\ ~ InAllowList(parse_qs(raw)["Location"][1])
  /\ request' = [ method |-> "POST", form |-> raw ]
  /\ response' = [ status |-> "400 Bad Request", body |-> InvalidLocationError ]
  /\ UNCHANGED << heap, reviews, seeded, created, pc, local >>

\* REQUEST_METHOD == "POST", validation passed; new_review = {...}: a new
\* dict, reachable only from this thread
ConcPostBuild(t, raw, now) ==
  /\ pc[t] = "idle"
  /\ Len(heap) < MaxStore
  /\ HasRequired(parse_qs(raw))
  /\ InAllowList(parse_qs(raw)["Location"][1])
  /\ LET parsed_body == parse_qs(raw)
         o == Len(heap) + 1
     IN  /\ heap' = Append(heap, new_review(o, parsed_body["ReviewBody"][1],
                                            parsed_body["Location"][1], now))
         /\ local' = [ local EXCEPT ![t] =
                         [ method |-> "POST", raw |-> raw, obj |-> o ] ]
  /\ Goto(t, "post_append")
  /\ UNCHANGED << reviews, seeded, request, response, created >>

\* reviews.append(new_review)
ConcPostAppend(t) ==
  /\ pc[t] = "post_append"
  /\ Goto(t, "post_respond")
  /\ reviews' = ListAppend(reviews, local[t].obj)
  /\ UNCHANGED << heap, seeded, request, response, created, local >>

\* json.dumps(new_review) and the 201 response
ConcPostRespond(t) ==
  /\ pc[t] = "post_respond"
  /\ Goto(t, "idle")
  /\ request' = [ method |-> "POST", form |-> local[t].raw ]
  /\ response' = [ status |-> "201 Created", body |-> heap[local[t].obj] ]
  /\ created' = created \cup { local[t].obj }
  /\ local' = [ local EXCEPT ![t] = Idle ]
  /\ UNCHANGED << heap, reviews, seeded >>

NextConc ==
  \/ \E t \in Threads, raw \in ConcQueries : ConcGetCopy(t, raw)
  \/ \E t \in Threads : ConcGetFilter(t)
  \/ \E t \in Threads : ConcGetAttach(t)
  \/ \E t \in Threads : ConcGetSort(t)
  \/ \E t \in Threads : ConcGetRespond(t)
  \/ \E t \in Threads, raw \in ConcForms : ConcPostMissing(t, raw)
  \/ \E t \in Threads, raw \in ConcForms : ConcPostInvalid(t, raw)
  \/ \E t \in Threads, raw \in ConcForms, now \in ConcTimestamps :
       ConcPostBuild(t, raw, now)
  \/ \E t \in Threads : ConcPostAppend(t)
  \/ \E t \in Threads : ConcPostRespond(t)

SpecConc == InitConc /\ [][NextConc]_vars

\* ================================================================ claims
\* ------------------------------------------------ vocabulary of the claims
\* Key k was submitted with a non-blank value.
Carries(raw, k) == raw[k] # << >> /\ raw[k][1] # ""

\* Key k was not submitted, or was submitted blank.
Lacks(raw, k) == ~ Carries(raw, k)

IsGet(req) == req.method = "GET"

IsPost(req) == req.method = "POST"

\* Objects appended by a POST: everything in the store after the seed rows.
Posted == { reviews[i] : i \in (seeded + 1) .. Len(reviews) }

Count(seq, x) == Cardinality({ i \in DOMAIN seq : seq[i] = x })

SameBag(a, b) ==
  /\ Len(a) = Len(b)
  /\ \A x \in Range(a) \cup Range(b) : Count(a, x) = Count(b, x)

IsPrefix(a, b) == Len(a) <= Len(b) /\ SubSeq(b, 1, Len(a)) = a

\* The fields a review is made of when it enters the store.
Core(d) == [ k \in { "ReviewBody", "Location", "Timestamp" } |-> d[k] ]

\* Midnight of the day a well-formed date string names.
Midnight(s) ==
  LET d == CHOOSE d \in 1 .. Len(DateStr) : DateStr[d] = s IN (d - 1) * 24

WellFormed(s) == \E d \in 1 .. Len(DateStr) : DateStr[d] = s

\* ---------------------------------------------------------------------- C1
\* The step that answers a POST carrying ReviewBody and an allow-listed
\* Location answers 201 with that Location and appends exactly one review,
\* with that body and location, at the end of the store.
C1_PostStep ==
  (IsPost(request') /\ Carries(request'.form, "ReviewBody")
     /\ Carries(request'.form, "Location")
     /\ request'.form.Location[1] \in allowed_locations)
  => /\ response'.status = "201 Created"
     /\ response'.body.Location = request'.form.Location[1]
     /\ Len(reviews') = Len(reviews) + 1
     /\ IsPrefix(reviews, reviews')
     /\ reviews'[Len(reviews')] \notin Range(reviews)
     /\ heap'[reviews'[Len(reviews')]].ReviewBody = request'.form.ReviewBody[1]
     /\ heap'[reviews'[Len(reviews')]].Location = request'.form.Location[1]

\* A GET without filters returns every review a POST added; a GET whose only
\* filter is a location returns every review a POST added with that location.
C1_Visible ==
  (IsGet(request) /\ request.query.start_date = << >>
     /\ request.query.end_date = << >>)
  => /\ response.status = "200 OK"
     /\ \A o \in Posted :
          (request.query.location = << >>
             \/ request.query.location = << heap[o].Location >>)
          => Count(response.body, heap[o])
               >= Cardinality({ q \in Posted : heap[q] = heap[o] })

\* C1: a valid POST is answered 201 with the submitted Location and appends
\* exactly one review at the end of the store, and every later GET without
\* filters, or filtered only by that location, returns that review, whatever
\* requests happen in between.
C1_ValidPostCreatesVisibleReview == [] C1_Visible /\ [][C1_PostStep]_vars

C1_Witness ==
  /\ IsGet(request)
  /\ request.query = [ location |-> << "Denver, Colorado" >>,
                       start_date |-> << >>, end_date |-> << >> ]
  /\ seeded = 1
  /\ heap[1].Location = "Nowhere"
  /\ Cardinality(Posted) = 1
  /\ \A o \in Posted : response.body = << heap[o] >>

\* ---------------------------------------------------------------------- C2
\* C2: a POST that lacks ReviewBody or Location (not submitted, or blank) is
\* answered 400 with the missing-field error; a POST that carries both, with
\* a Location outside the allow-list, is answered 400 "Invalid location
\* provided"; in both cases heap and store are what they were.
C2_Step ==
  /\ (IsPost(request')
        /\ (Lacks(request'.form, "ReviewBody") \/ Lacks(request'.form, "Location")))
     => /\ response' = [ status |-> "400 Bad Request", body |-> MissingFieldError ]
        /\ reviews' = reviews
        /\ heap' = heap
  /\ (IsPost(request') /\ Carries(request'.form, "ReviewBody")
        /\ Carries(request'.form, "Location")
        /\ request'.form.Location[1] \notin allowed_locations)
     => /\ response' = [ status |-> "400 Bad Request", body |-> InvalidLocationError ]
        /\ reviews' = reviews
        /\ heap' = heap

C2_RejectedPostLeavesStore == [][C2_Step]_vars

C2_Witness ==
  /\ IsPost(request)
  /\ request.form = [ ReviewBody |-> << "Great stay" >>,
                      Location |-> << "denver, colorado" >> ]
  /\ response.body = InvalidLocationError
  /\ Len(reviews) = 2

\* ---------------------------------------------------------------------- C3
\* C3: a GET that carries a location outside the allow-list is answered 200
\* with the empty array, whatever the store holds and whatever start_date
\* and end_date are.
C3_UnknownLocationIsEmpty ==
  (IsGet(request) /\ Carries(request.query, "location")
     /\ request.query.location[1] \notin allowed_locations)
  => response = [ status |-> "200 OK", body |-> << >> ]

C3_Witness ==
  /\ IsGet(request)
  /\ request.query.location = << "Nowhere" >>
  /\ request.query.start_date = << "01/02/2021" >>
  /\ request.query.end_date = << >>
  /\ seeded = 1
  /\ heap[1].Location = "Nowhere"
  /\ response.body = << >>

\* ---------------------------------------------------------------------- C4
\* What a GET with raw query `raw` returns from store `lst` and heap `h`.
GetBody(raw, lst, h) ==
  LET f == Filtered(lst, parse_qs(raw), h)
      h2 == AttachSentiment(h, f)
  IN  Dumps(SortDesc(f, h2), h2)

Without(raw, k) == [ raw EXCEPT ![k] = << >> ]

Malformed(raw, k) == Carries(raw, k) /\ ~ WellFormed(raw[k][1])

\* C4: a GET with a start_date or end_date that does not parse returns what
\* the same query returns with that parameter removed.
C4_MalformedDateIsOmitted ==
  IsGet(request)
  => /\ Malformed(request.query, "start_date")
        => response.body = GetBody(Without(request.query, "start_date"), reviews, heap)
     /\ Malformed(request.query, "end_date")
        => response.body = GetBody(Without(request.query, "end_date"), reviews, heap)

\* ---------------------------------------------------------------------- C5
\* The reviews the claim expects back, in store order.
C5_Expected(raw) ==
  SelectSeq(reviews,
    LAMBDA o :
      /\ Carries(raw, "location")
         => (heap[o].Location = raw.location[1]
               /\ raw.location[1] \in allowed_locations)
      /\ Carries(raw, "start_date")
         => Midnight(raw.start_date[1]) <= TimestampValue[heap[o].Timestamp]
      /\ Carries(raw, "end_date")
         => TimestampValue[heap[o].Timestamp] <= Midnight(raw.end_date[1]))

\* C5: with parseable bounds a GET returns exactly the location-filtered
\* reviews stamped at or after midnight of start_date and at or before
\* midnight of end_date.
C5_InclusiveMidnightBounds ==
  (IsGet(request) /\ ~ Malformed(request.query, "start_date")
     /\ ~ Malformed(request.query, "end_date"))
  => SameBag(response.body, Dumps(C5_Expected(request.query), heap))

C5_Witness ==
  /\ IsGet(request)
  /\ request.query = [ location |-> << >>, start_date |-> << DateStr[2] >>,
                       end_date |-> << DateStr[2] >> ]
  /\ Len(reviews) = 2
  /\ { heap[o].Timestamp : o \in Range(reviews) }
       = { TimestampStr[2][1], TimestampStr[2][2] }
  /\ Len(response.body) = 1
  /\ response.body[1].Timestamp = TimestampStr[2][1]

\* ---------------------------------------------------------------------- C6
Perms(n) ==
  { p \in [ 1 .. n -> 1 .. n ] : \A i, j \in 1 .. n : i # j => p[i] # p[j] }

\* C6: the array a GET returns is the filtered sequence rearranged into
\* non-increasing compound score, reviews of equal score keeping the order
\* they have in the filtered sequence.
C6_StableDescendingSort ==
  IsGet(request)
  => LET f == Filtered(reviews, parse_qs(request.query), heap)
         b == response.body
     IN  /\ Len(b) = Len(f)
         /\ \A i, j \in DOMAIN b :
              i < j => b[i].sentiment.compound >= b[j].sentiment.compound
         /\ \E p \in Perms(Len(f)) :
              /\ \A i \in DOMAIN b : b[i] = heap[f[p[i]]]
              /\ \A i, j \in DOMAIN b :
                   (i < j /\ b[i].sentiment.compound = b[j].sentiment.compound)
                   => p[i] < p[j]

C6_Witness ==
  /\ IsGet(request)
  /\ Len(response.body) = 2
  /\ response.body[1].sentiment.compound = response.body[2].sentiment.compound
  /\ response.body[1] # response.body[2]
  /\ response.body[1] = heap[reviews[1]]

\* ---------------------------------------------------------------------- C7
\* C7: a GET leaves every record of the store with the fields and values it
\* had before.
C7_Step == IsGet(request') => \A o \in DOMAIN heap : heap'[o] = heap[o]

C7_GetLeavesRecordsUntouched == [][C7_Step]_vars

\* ---------------------------------------------------------------------- C8
\* C8: every request leaves the previous store sequence as a prefix of the
\* new one; the store grows by exactly one on a 201 and is the same list
\* after anything else; no review changes body, location or timestamp.
C8_Step ==
  /\ IsPrefix(reviews, reviews')
  /\ response'.status = "201 Created" => Len(reviews') = Len(reviews) + 1
  /\ response'.status # "201 Created" => reviews' = reviews
  /\ \A o \in DOMAIN heap : Core(heap'[o]) = Core(heap[o])

C8_StoreIsAppendOnly == [][C8_Step]_vars

C8_Witness ==
  /\ IsGet(request)
  /\ Len(response.body) = 2
  /\ response.body[1] = heap[reviews[2]]
  /\ response.body[2] = heap[reviews[1]]
  /\ response.body[1] # response.body[2]
  /\ Posted # { }

\* ---------------------------------------------------------------------- C9
C9_PostedAreValid ==
  \A o \in Posted :
    heap[o].ReviewBody # "" /\ heap[o].Location \in allowed_locations

C9_BlankBodyStep ==
  (IsPost(request') /\ request'.form.ReviewBody = << "" >>)
  => reviews' = reviews /\ heap' = heap

\* C9: every review a POST added has a non-empty ReviewBody and an
\* allow-listed Location, and a POST that submits a blank ReviewBody adds
\* nothing.
C9_CreatedReviewsAreValid == [] C9_PostedAreValid /\ [][C9_BlankBodyStep]_vars

C9_Witness ==
  /\ IsPost(request)
  /\ request.form = [ ReviewBody |-> << "" >>,
                      Location |-> << "Denver, Colorado" >> ]
  /\ response.status = "400 Bad Request"
  /\ Posted # { }

\* --------------------------------------------------------------------- C10
RequiredKeys == { "ReviewBody", "Location", "Timestamp", "sentiment" }

Quiescent == \A t \in Threads : pc[t] = "idle"

\* C10: in the threaded deployment every review a GET returns has
\* ReviewBody, Location, Timestamp and sentiment; the store starts with the
\* seed records in order, holds no object twice, holds each review a 201
\* reported exactly once, and when no request is in flight holds the seed
\* records followed by exactly the reviews the 201 responses reported.
C10_ThreadedStoreIsConsistent ==
  /\ (IsGet(request) /\ response.status = "200 OK")
     => \A i \in DOMAIN response.body : RequiredKeys \subseteq DOMAIN response.body[i]
  /\ SubSeq(reviews, 1, seeded) = [ i \in 1 .. seeded |-> i ]
  /\ \A i, j \in DOMAIN reviews : i # j => reviews[i] # reviews[j]
  /\ \A o \in created : Count(reviews, o) = 1
  /\ Quiescent
     => /\ Len(reviews) = seeded + Cardinality(created)
        /\ Range(reviews) = (1 .. seeded) \cup created

\* A GET that copied the list before a concurrent POST appended answers
\* after that POST's 201, without the new review.
C10_Witness ==
  /\ IsGet(request)
  /\ request.query.location = << "Denver, Colorado" >>
  /\ response.status = "200 OK"
  /\ Len(response.body) = seeded
  /\ seeded = 1
  /\ Cardinality(created) = 1
  /\ Len(reviews) = 2

====
